---------------------------- MODULE Spec2Model ----------------------------
(***************************************************************************)
(* A model of html-visibility-analyzer: the HTML text extraction           *)
(* (html-filter.js), the tokenizer and the LCS diff engine (tokenizer.js,  *)
(* diff-engine.js), the metrics and scoring layer (analyzer.js) and the    *)
(* entry points of index.js.                                               *)
(*                                                                         *)
(* Representation.                                                         *)
(*  - A string is a sequence of one-character strings, "a b" is            *)
(*    <<"a", " ", "b">>; a token is such a sequence, a token sequence is a *)
(*    sequence of tokens.                                                  *)
(*  - A JavaScript number is an exact rational [num, den] in lowest terms  *)
(*    with den > 0.  IEEE doubles agree with the exact value on every      *)
(*    input the bounds below reach; they differ from it only on exact .5   *)
(*    ties of the weighted score whose contentGain - 1 is not a binary     *)
(*    fraction (first reached from word counts 7 and 19).                  *)
(*  - An HTML document is the element nodes [tag, text, children] of its  *)
(*    head and of its body; null/undefined markup is the document with     *)
(*    isNull = TRUE and the empty string is the document with no nodes.    *)
(*  - Time is a counter of milliseconds; a timer runs its callback at or   *)
(*    after the time it is due, never before.                              *)
(***************************************************************************)
EXTENDS Integers, Sequences, FiniteSets, TLC

VARIABLES
    env,      \* "node" (cheerio) or "browser" (document and DOMParser defined)
    input1,   \* the first input of the caller: initial markup, or a text
    input2,   \* the second input: rendered markup, or a text
    op,       \* the operation called last
    args,     \* the other arguments of that call
    result,   \* the value it returned
    pending,  \* dynamic-import callbacks of analyzeVisibility not yet run
    calls,    \* the calls of a session, or the comparisons in progress
    now,        \* the time, in milliseconds
    timers,     \* the timers set with setTimeout and not yet run or cleared
    timeout,    \* debounce's timeout: the id of the timer it set last
    inThrottle, \* throttle's inThrottle
    invoked     \* the invocations of the debounced or throttled func

\* the variables of the timing helpers
timing == <<now, timers, timeout, inThrottle, invoked>>

\* the variables of the analysis that the timing helpers leave alone
inputs == <<env, input1, input2, result, pending>>

vars == <<env, input1, input2, op, args, result, pending, calls, timing>>

\* no debounced or throttled function in use
NoTiming ==
    /\ now = 0
    /\ timers = {}
    /\ timeout = 0
    /\ inThrottle = FALSE
    /\ invoked = <<>>

-----------------------------------------------------------------------------
(* Bounds of the model *)

\* longest document, in element nodes
MaxNodes == 2
\* longest text handed directly to the text functions, in pieces
MaxPieces == 3
\* largest word count handed directly to calculateCitationReadability
MaxCount == 6
\* token count of a long text, for the arithmetic of the similarity
LongText == 1001
\* most dynamic imports of a session not yet resolved
MaxPending == 1

\* the number of pieces of a text with URLs
MaxUrlPieces == 4
\* longest wait of a debounced, limit of a throttled function, in ms
MaxWait == 2
\* most calls of a debounced or throttled function
MaxCalls == 3
\* the time after which no call is made and no time is counted, in ms
MaxTime == 5

-----------------------------------------------------------------------------
(* JavaScript numbers as exact rationals *)

Abs(n) == IF n < 0 THEN -n ELSE n

RECURSIVE Gcd(_, _)
Gcd(a, b) == IF b = 0 THEN a ELSE Gcd(b, a % b)

\* the number n/d, d > 0, in lowest terms
Rat(n, d) ==
    LET g == Gcd(Abs(n), d)
    IN  [num |-> n \div g, den |-> d \div g]

Num(n) == [num |-> n, den |-> 1]

RAdd(x, y) == Rat(x.num * y.den + y.num * x.den, x.den * y.den)
RSub(x, y) == Rat(x.num * y.den - y.num * x.den, x.den * y.den)
RMul(x, y) == Rat(x.num * y.num, x.den * y.den)
\* x / y for y > 0
RDiv(x, y) == Rat(x.num * y.den, x.den * y.num)

RLt(x, y) == x.num * y.den < y.num * x.den
RLe(x, y) == x.num * y.den <= y.num * x.den

\* Math.min, Math.max
MathMin(x, y) == IF RLt(y, x) THEN y ELSE x
MathMax(x, y) == IF RLt(x, y) THEN y ELSE x

\* Math.round: the nearest integer, ties toward +Infinity
MathRound(x) == Num((2 * x.num + x.den) \div (2 * x.den))

\* Math.round(x * 10) / 10
Round1(x) == RDiv(MathRound(RMul(x, Num(10))), Num(10))

IsInteger(x) == x.den = 1

-----------------------------------------------------------------------------
(* Strings *)

\* characters matched by \s
Whitespace == {" ", "\n", "\r", "\t"}

RECURSIVE Concat(_)
\* the concatenation of a sequence of strings
Concat(ss) == IF ss = <<>> THEN <<>> ELSE Head(ss) \o Concat(Tail(ss))

RECURSIVE TrimStart(_)
TrimStart(s) ==
    IF s # <<>> /\ Head(s) \in Whitespace THEN TrimStart(Tail(s)) ELSE s

RECURSIVE TrimEnd(_)
TrimEnd(s) ==
    IF s # <<>> /\ s[Len(s)] \in Whitespace
    THEN TrimEnd(SubSeq(s, 1, Len(s) - 1))
    ELSE s

\* String.prototype.trim
Trim(s) == TrimEnd(TrimStart(s))

RECURSIVE CollapseWhitespace(_)
\* s.replace(/\s+/g, ' ')
CollapseWhitespace(s) ==
    IF s = <<>> THEN <<>>
    ELSE IF Head(s) \in Whitespace
         THEN <<" ">> \o CollapseWhitespace(TrimStart(s))
         ELSE <<Head(s)>> \o CollapseWhitespace(Tail(s))

RECURSIVE Split(_, _, _, _)
\* the pieces of s between separators, empty pieces included
Split(s, seps, cur, acc) ==
    IF s = <<>> THEN Append(acc, cur)
    ELSE IF Head(s) \in seps
         THEN Split(Tail(s), seps, <<>>, Append(acc, cur))
         ELSE Split(Tail(s), seps, Append(cur, Head(s)), acc)

-----------------------------------------------------------------------------
(* utils.js: number formatting *)

DigitChars == <<"0", "1", "2", "3", "4", "5", "6", "7", "8", "9">>

RECURSIVE NumberToString(_)
\* num.toString() of a natural number
NumberToString(n) ==
    IF n < 10 THEN <<DigitChars[n + 1]>>
    ELSE Append(NumberToString(n \div 10), DigitChars[(n % 10) + 1])

\* x.toFixed(1) for x >= 0: the nearest tenth, with its one decimal
ToFixed1(x) ==
    LET tenths == MathRound(RMul(x, Num(10))).num
    IN  NumberToString(tenths \div 10) \o <<".", DigitChars[(tenths % 10) + 1]>>

\* replace(/\.0$/, '')
StripPointZero(s) ==
    IF Len(s) >= 2 /\ s[Len(s) - 1] = "." /\ s[Len(s)] = "0"
    THEN SubSeq(s, 1, Len(s) - 2)
    ELSE s

\* the least number written with the M suffix, with the K suffix
Million     == 1000000
TenThousand == 10000
Thousand    == 1000

\* formatNumberToK(num) for a natural number
formatNumberToK(num) ==
    IF num >= Million
    THEN Append(StripPointZero(ToFixed1(Rat(num, Million))), "M")
    ELSE IF num >= TenThousand
    THEN Append(StripPointZero(ToFixed1(Rat(num, Thousand))), "K")
    ELSE NumberToString(num)

-----------------------------------------------------------------------------
(* html-filter.js *)

\* element names among navigationSelectors
navigationSelectors == {"nav", "header", "footer"}

\* "script,style,noscript,template"
ScriptTags == {"script", "style", "noscript", "template"}

\* "img,video,audio,picture,svg,canvas,embed,object,iframe"
MediaTags ==
    {"img", "video", "audio", "picture", "svg", "canvas", "embed", "object",
     "iframe"}

\* an element the selectors of the removals match
Removed(n, ignoreNavFooter) ==
    \/ n.tag \in ScriptTags
    \/ n.tag \in MediaTags
    \/ ignoreNavFooter /\ n.tag \in navigationSelectors

\* the removals without the elements inside other elements
RemoveElements_TopLevel(nodes, ignoreNavFooter) ==
    SelectSeq(nodes, LAMBDA n : ~Removed(n, ignoreNavFooter))

RECURSIVE RemoveElements(_, _)
\* the nodes left once script, style, media and (on request) navigation
\* elements are removed, wherever they are in the tree
RemoveElements(nodes, ignoreNavFooter) ==
    IF nodes = <<>> THEN <<>>
    ELSE IF Removed(Head(nodes), ignoreNavFooter)
         THEN RemoveElements(Tail(nodes), ignoreNavFooter)
         ELSE <<[Head(nodes) EXCEPT
                   !.children = RemoveElements(@, ignoreNavFooter)]>>
              \o RemoveElements(Tail(nodes), ignoreNavFooter)

RECURSIVE TextContent(_)
\* textContent / text(): the text of the nodes and of what is inside them,
\* in document order
TextContent(nodes) ==
    IF nodes = <<>> THEN <<>>
    ELSE Head(nodes).text \o TextContent(Head(nodes).children)
         \o TextContent(Tail(nodes))

\* !htmlContent: null, undefined or the empty string
IsEmptyHtml(htmlContent) ==
    htmlContent.isNull \/ (htmlContent.head = <<>> /\ htmlContent.nodes = <<>>)

\* the text filterHtmlContent returns in an environment: the text of the
\* body under DOMParser, of the html element under cheerio
FilteredText(environment, htmlContent, ignoreNavFooter) ==
    IF IsEmptyHtml(htmlContent)
    THEN <<>>
    ELSE IF environment = "browser"
         THEN TextContent(RemoveElements(htmlContent.nodes, ignoreNavFooter))
         ELSE Trim(CollapseWhitespace(TextContent(
                  RemoveElements(htmlContent.head \o htmlContent.nodes,
                                 ignoreNavFooter))))

\* filterHtmlContent(htmlContent, ignoreNavFooter, returnText = true)
filterHtmlContent(htmlContent, ignoreNavFooter) ==
    FilteredText(env, htmlContent, ignoreNavFooter)

\* stripTagsToText keeping the ignoreNavFooter flag of the call before
stripTagsToText_LastOptions(htmlContent, ignoreNavFooter) ==
    filterHtmlContent(htmlContent,
                      IF "options" \in DOMAIN args
                      THEN args.options.ignoreNavFooter
                      ELSE ignoreNavFooter)

stripTagsToText(htmlContent, ignoreNavFooter) ==
    filterHtmlContent(htmlContent, ignoreNavFooter)

-----------------------------------------------------------------------------
(* tokenizer.js *)

\* the scheme prefix a URL starts with, one symbol of a text
Scheme == "https://"

Letters == {"a", "b"}

\* the punctuation the spacing rules of step 3 apply to
Punctuation == {",", ".", "!", "?", ";", ":"}

\* step 2 without the placeholders: the text goes on as it is
ProtectUrls_NoProtection(s, out, urls) == [text |-> s, urls |-> <<>>]

\* the private code points URLs are replaced by, the k-th URL by the k-th
Placeholders == <<"\\uE000", "\\uE001", "\\uE002", "\\uE003", "\\uE004", "\\uE005">>

RECURSIVE StandardizeLineEndings(_)
\* step 1: CRLF and CR to LF
StandardizeLineEndings(s) ==
    IF s = <<>> THEN <<>>
    ELSE IF Head(s) = "\r"
         THEN <<"\n">> \o StandardizeLineEndings(
                              IF Len(s) > 1 /\ s[2] = "\n" THEN Tail(Tail(s))
                                                            ELSE Tail(s))
         ELSE <<Head(s)>> \o StandardizeLineEndings(Tail(s))

RECURSIVE RunLength(_, _)
\* the length of the longest prefix of s outside the set stop
RunLength(s, stop) ==
    IF s = <<>> \/ Head(s) \in stop THEN 0 ELSE 1 + RunLength(Tail(s), stop)

RECURSIVE ProtectUrls(_, _, _)
\* step 2: every URL-like substring, a scheme and what follows it up to
\* the next whitespace, replaced by its placeholder; urls keeps the URLs
ProtectUrls(s, out, urls) ==
    IF s = <<>> THEN [text |-> out, urls |-> urls]
    ELSE IF Head(s) = Scheme
         THEN ProtectUrls(SubSeq(s, RunLength(s, Whitespace) + 1, Len(s)),
                          Append(out, Placeholders[Len(urls) + 1]),
                          Append(urls, SubSeq(s, 1, RunLength(s, Whitespace))))
         ELSE ProtectUrls(Tail(s), Append(out, Head(s)), urls)

RECURSIVE NormalizePunctuation(_)
\* step 3: no whitespace before punctuation, and a space between sentence
\* punctuation and a letter that follows it
NormalizePunctuation(s) ==
    IF s = <<>> THEN <<>>
    ELSE IF /\ Head(s) \in Whitespace
            /\ TrimStart(s) # <<>>
            /\ Head(TrimStart(s)) \in Punctuation
         THEN NormalizePunctuation(TrimStart(s))
    ELSE IF Head(s) \in Punctuation /\ Len(s) > 1 /\ s[2] \in Letters
         THEN <<Head(s), " ">> \o NormalizePunctuation(Tail(s))
    ELSE <<Head(s)>> \o NormalizePunctuation(Tail(s))

RECURSIVE RestoreUrls(_, _)
\* the placeholders replaced by the URLs they stand for
RestoreUrls(s, urls) ==
    IF s = <<>> THEN <<>>
    ELSE IF \E k \in 1..Len(urls) : Head(s) = Placeholders[k]
         THEN urls[CHOOSE k \in 1..Len(urls) : Head(s) = Placeholders[k]]
              \o RestoreUrls(Tail(s), urls)
         ELSE <<Head(s)>> \o RestoreUrls(Tail(s), urls)

\* steps 3 and 4 on the protected text, then the URLs put back
NormalizeProtected(protected) ==
    RestoreUrls(Trim(CollapseWhitespace(NormalizePunctuation(protected.text))),
                protected.urls)

\* steps 1 to 4 of the normalization pipeline: line endings, URL
\* placeholders, punctuation spacing, whitespace runs to one space and the
\* ends trimmed, and the URLs put back
normalizeText(text) ==
    NormalizeProtected(ProtectUrls(StandardizeLineEndings(text), <<>>, <<>>))

\* the non-empty pieces
NonEmpty(pieces) == SelectSeq(pieces, LAMBDA t : t # <<>>)

\* the invalid-argument failure of a call
InvalidArgument == [threw |-> TRUE, error |-> "invalid-argument"]

\* tokenizeThrows accepting every mode string
tokenizeThrows_Never(mode) == FALSE

\* tokenize raises invalid-argument for this mode string
tokenizeThrows(mode) == mode \notin {"word", "line"}

tokenize(text, mode) ==
    IF tokenizeThrows(mode)
    THEN InvalidArgument
    ELSE IF mode = "line"
    THEN LET lines == Split(text, {"\n", "\r"}, <<>>, <<>>)
         IN  NonEmpty([i \in 1..Len(lines) |-> Trim(lines[i])])
    ELSE NonEmpty(Split(normalizeText(text), {" "}, <<>>, <<>>))

countWords(text) == Len(tokenize(text, "word"))

-----------------------------------------------------------------------------
(* diff-engine.js *)

RECURSIVE SymbolTable(_, _)
\* the per-call map sym after mapTok has seen every token of toks: a token
\* new to the map gets sym.size + 1
SymbolTable(toks, sym) ==
    IF toks = <<>> THEN sym
    ELSE IF \E i \in 1..Len(sym) : sym[i] = Head(toks)
         THEN SymbolTable(Tail(toks), sym)
         ELSE SymbolTable(Tail(toks), Append(sym, Head(toks)))

\* mapTok(t): the integer of token t in sym
mapTok(sym, t) == CHOOSE i \in 1..Len(sym) : sym[i] = t

Max(a, b) == IF a >= b THEN a ELSE b

\* LcsTable that does not count a match
LcsTable_NoIncrement(a, b) ==
    LET dp[i \in 0..Len(a), j \in 0..Len(b)] ==
            IF i = 0 \/ j = 0 THEN 0
            ELSE IF a[i] = b[j] THEN dp[i - 1, j - 1]
            ELSE Max(dp[i - 1, j], dp[i, j - 1])
    IN  dp

\* the LCS length table over the integer sequences a and b
LcsTable(a, b) ==
    LET dp[i \in 0..Len(a), j \in 0..Len(b)] ==
            IF i = 0 \/ j = 0 THEN 0
            ELSE IF a[i] = b[j] THEN dp[i - 1, j - 1] + 1
            ELSE Max(dp[i - 1, j], dp[i, j - 1])
    IN  dp

RECURSIVE Backtrack_AddOnTies(_, _, _, _, _, _, _)
\* Backtrack walking toward decreasing j on ties
Backtrack_AddOnTies(A, B, a, b, dp, i, j) ==
    IF i = 0 /\ j = 0 THEN <<>>
    ELSE IF i > 0 /\ j > 0 /\ a[i] = b[j]
         THEN <<[type |-> "same", text |-> A[i]]>>
              \o Backtrack_AddOnTies(A, B, a, b, dp, i - 1, j - 1)
    ELSE IF j > 0 /\ (i = 0 \/ dp[i, j - 1] >= dp[i - 1, j])
         THEN <<[type |-> "add", text |-> B[j]]>>
              \o Backtrack_AddOnTies(A, B, a, b, dp, i, j - 1)
    ELSE <<[type |-> "del", text |-> A[i]]>>
         \o Backtrack_AddOnTies(A, B, a, b, dp, i - 1, j)

RECURSIVE Backtrack(_, _, _, _, _, _, _)
\* the operations pushed walking from dp[i][j] back to dp[0][0]
Backtrack(A, B, a, b, dp, i, j) ==
    IF i = 0 /\ j = 0 THEN <<>>
    ELSE IF i > 0 /\ j > 0 /\ a[i] = b[j]
         THEN <<[type |-> "same", text |-> A[i]]>>
              \o Backtrack(A, B, a, b, dp, i - 1, j - 1)
    ELSE IF j > 0 /\ (i = 0 \/ dp[i, j - 1] > dp[i - 1, j])
         THEN <<[type |-> "add", text |-> B[j]]>>
              \o Backtrack(A, B, a, b, dp, i, j - 1)
    ELSE <<[type |-> "del", text |-> A[i]]>>
         \o Backtrack(A, B, a, b, dp, i - 1, j)

\* Reverse leaving the order as it is
Reverse_Identity(s) == s

\* Array.prototype.reverse
Reverse(s) == [k \in 1..Len(s) |-> s[Len(s) + 1 - k]]

\* diffTokens that aligns nothing: every token of text1 removed, then every
\* token of text2 added
diffTokens_NoAlignment(text1, text2, mode) ==
    LET A == tokenize(text1, mode)
        B == tokenize(text2, mode)
    IN  [i \in 1..Len(A) |-> [type |-> "del", text |-> A[i]]]
        \o [j \in 1..Len(B) |-> [type |-> "add", text |-> B[j]]]

\* the operations of diffTokens on the token sequences A and B
DiffOfTokens(A, B) ==
    LET sym == SymbolTable(A \o B, <<>>)
        a   == [i \in 1..Len(A) |-> mapTok(sym, A[i])]
        b   == [j \in 1..Len(B) |-> mapTok(sym, B[j])]
        dp  == LcsTable(a, b)
    IN  Reverse(Backtrack(A, B, a, b, dp, Len(A), Len(B)))

\* diffTokens(text1, text2, mode): the two texts are tokenized once each
diffTokens(text1, text2, mode) ==
    CHOOSE ops \in {DiffOfTokens(A, B) : A \in {tokenize(text1, mode)},
                                         B \in {tokenize(text2, mode)}} : TRUE

\* the number of operations of one type
CountType(ops, type) == Len(SelectSeq(ops, LAMBDA o : o.type = type))

generateDiffReport(text1, text2, mode) ==
    LET ops == diffTokens(text1, text2, mode)
    IN  [operations |-> ops,
         same       |-> CountType(ops, "same"),
         added      |-> CountType(ops, "add"),
         removed    |-> CountType(ops, "del")]

\* SimilarityRatio cut to one decimal instead of rounded
SimilarityRatio_Truncated(same, total) ==
    IF total = 0
    THEN Num(100)
    ELSE Rat((2 * same * 100 * 10) \div total, 10)

\* the similarity of an alignment with `same` common tokens out of `total`
\* tokens in the two sequences together
SimilarityRatio(same, total) ==
    IF total = 0
    THEN Num(100)
    ELSE Round1(Rat(2 * same * 100, total))

\* calculateSimilarity measured against the first text alone
calculateSimilarity_FirstTextOnly(text1, text2, mode) ==
    LET report == generateDiffReport(text1, text2, mode)
        total  == 2 * Len(tokenize(text1, mode))
    IN  IF total = 0
        THEN Num(100)
        ELSE Round1(Rat(2 * report.same * 100, total))

calculateSimilarity(text1, text2, mode) ==
    LET report == generateDiffReport(text1, text2, mode)
        total  == Len(tokenize(text1, mode)) + Len(tokenize(text2, mode))
    IN  SimilarityRatio(report.same, total)

-----------------------------------------------------------------------------
(* analyzer.js *)

\* calculateCitationReadability testing the wrong count for zero
calculateCitationReadability_InitialZero(initialWordCount, finalWordCount) ==
    IF initialWordCount = 0 \/ finalWordCount = 0
    THEN Num(100)
    ELSE MathMin(Num(100),
                 RMul(Rat(initialWordCount, finalWordCount), Num(100)))

calculateCitationReadability(initialWordCount, finalWordCount) ==
    IF finalWordCount = 0
    THEN Num(100)
    ELSE MathMin(Num(100),
                 RMul(Rat(initialWordCount, finalWordCount), Num(100)))

\* ContentGain without the default of 1 for an empty initial text
ContentGain_NoDefault(initCount, finCount) ==
    IF initCount > 0 THEN Rat(finCount, initCount) ELSE Num(finCount)

\* ContentGain with an integer division
ContentGain_IntegerDivision(initCount, finCount) ==
    IF initCount > 0 THEN Num(finCount \div initCount) ELSE Num(1)

\* const contentGain = initTokens.length > 0 ? ... : 1
ContentGain(initCount, finCount) ==
    IF initCount > 0 THEN Rat(finCount, initCount) ELSE Num(1)

analyzeContentDifference(initHtml, finHtml, options) ==
    LET ignoreNavFooter == options.ignoreNavFooter
        initText == stripTagsToText(initHtml, ignoreNavFooter)
        finText  == stripTagsToText(finHtml, ignoreNavFooter)
        initTextLength == Len(initText)
        finTextLength  == Len(finText)
        textRetention ==
            IF finTextLength > 0 THEN Rat(initTextLength, finTextLength)
                                 ELSE Num(0)
        wordDiff == generateDiffReport(initText, finText, "word")
        lineDiff == generateDiffReport(initText, finText, "line")
        initTokens == tokenize(initText, "word")
        finTokens  == tokenize(finText, "word")
        contentGain  == ContentGain(Len(initTokens), Len(finTokens))
        missingWords == Abs(Len(finTokens) - Len(initTokens))
        citationReadability ==
            calculateCitationReadability(Len(initTokens), Len(finTokens))
        similarity == calculateSimilarity(initText, finText, "word")
    IN  [initialText       |-> initText,
         finalText         |-> finText,
         initialTextLength |-> initTextLength,
         finalTextLength   |-> finTextLength,
         textRetention     |-> textRetention,
         wordDiff          |-> wordDiff,
         lineDiff          |-> lineDiff,
         metrics |->
            [contentGain         |-> Round1(contentGain),
             missingWords        |-> missingWords,
             citationReadability |-> MathRound(citationReadability),
             similarity          |-> Round1(similarity),
             wordCount |->
                [initial    |-> Len(initTokens),
                 final      |-> Len(finTokens),
                 difference |-> Len(finTokens) - Len(initTokens)]]]

readabilityWeight == Rat(5, 10)
similarityWeight  == Rat(3, 10)
contentGainWeight == Rat(2, 10)

\* normalizedContentGain without the lower clamp
normalizedContentGain_NoFloor(contentGain) ==
    MathMin(Num(100),
            RSub(Num(100), RMul(RSub(contentGain, Num(1)), Num(50))))

\* normalizedContentGain rising with the gain
normalizedContentGain_Rising(contentGain) ==
    MathMin(Num(100),
            MathMax(Num(0), RMul(RSub(contentGain, Num(1)), Num(50))))

\* Math.min(100, Math.max(0, 100 - ((contentGain - 1) * 50)))
normalizedContentGain(contentGain) ==
    MathMin(Num(100),
            MathMax(Num(0),
                    RSub(Num(100), RMul(RSub(contentGain, Num(1)), Num(50)))))

\* the score of the three factors
WeightedScore(citationReadability, similarity, contentGain) ==
    MathRound(RAdd(RAdd(RMul(citationReadability, readabilityWeight),
                        RMul(similarity, similarityWeight)),
                   RMul(normalizedContentGain(contentGain),
                        contentGainWeight)))

\* Category with exclusive lower bounds
Category_Exclusive(score) ==
    IF RLt(Num(90), score) THEN "excellent"
    ELSE IF RLt(Num(70), score) THEN "good"
    ELSE IF RLt(Num(50), score) THEN "fair"
    ELSE "poor"

\* the if/else chain on the score
Category(score) ==
    IF RLe(Num(90), score) THEN "excellent"
    ELSE IF RLe(Num(70), score) THEN "good"
    ELSE IF RLe(Num(50), score) THEN "fair"
    ELSE "poor"

Description(category) ==
    CASE category = "excellent" ->
            "Excellent - AI models can easily read and cite your content"
      [] category = "good" ->
            "Good - Most of your content is visible to AI models"
      [] category = "fair" ->
            "Fair - Some content may be missed by AI crawlers"
      [] OTHER ->
            "Poor - Significant content is hidden from AI models"

generateVisibilityScore(analysis) ==
    LET citationReadability == analysis.metrics.citationReadability
        similarity  == analysis.metrics.similarity
        contentGain == analysis.metrics.contentGain
        score    == WeightedScore(citationReadability, similarity, contentGain)
        category == Category(score)
    IN  [score       |-> score,
         category    |-> category,
         description |-> Description(category),
         breakdown |->
            [citationReadability |-> citationReadability,
             similarity          |-> similarity,
             contentGain         |-> normalizedContentGain(contentGain)]]

-----------------------------------------------------------------------------
(* index.js *)

\* const contentGain = words1 > 0 ? words2 / words1 : (words2 > 0 ? words2 : 1)
VisibilityContentGain(words1, words2) ==
    IF words1 > 0 THEN Rat(words2, words1)
    ELSE IF words2 > 0 THEN Num(words2)
    ELSE Num(1)

\* VisibilityCitationReadability without the rule for an empty initial text
VisibilityCitationReadability_NoEmptyRule(words1, words2) ==
    IF words2 > 0
    THEN MathMin(Num(100), RMul(Rat(words1, words2), Num(100)))
    ELSE Num(0)

\* VisibilityCitationReadability without the cap at 100
VisibilityCitationReadability_NoCap(words1, words2) ==
    IF words1 = 0 THEN Num(100)
    ELSE IF words2 > 0
         THEN RMul(Rat(words1, words2), Num(100))
         ELSE Num(0)

\* const citationReadability = words1 === 0 ? 100 : (words2 > 0 ? ... : 0)
VisibilityCitationReadability(words1, words2) ==
    IF words1 = 0 THEN Num(100)
    ELSE IF words2 > 0
         THEN MathMin(Num(100), RMul(Rat(words1, words2), Num(100)))
         ELSE Num(0)

\* VisibilityScore without Math.round
VisibilityScore_NoRound(citationReadability, similarity, contentGain) ==
    RAdd(RAdd(RMul(citationReadability, Rat(5, 10)),
              RMul(similarity, Rat(3, 10))),
         RMul(MathMin(Num(100),
                      MathMax(Num(0),
                              RSub(Num(100),
                                   RMul(RSub(contentGain, Num(1)),
                                        Num(50))))),
              Rat(2, 10)))

\* const score = Math.round(...) of analyzeVisibility, on the unrounded values
VisibilityScore(citationReadability, similarity, contentGain) ==
    MathRound(
        RAdd(RAdd(RMul(citationReadability, Rat(5, 10)),
                  RMul(similarity, Rat(3, 10))),
             RMul(MathMin(Num(100),
                          MathMax(Num(0),
                                  RSub(Num(100),
                                       RMul(RSub(contentGain, Num(1)),
                                            Num(50))))),
                  Rat(2, 10))))

\* the if/else chain of analyzeVisibility on the score
VisibilityCategory(score) ==
    IF RLe(Num(90), score) THEN "excellent"
    ELSE IF RLe(Num(70), score) THEN "good"
    ELSE IF RLe(Num(50), score) THEN "fair"
    ELSE "poor"

VisibilityDescription(category) ==
    CASE category = "excellent" ->
            "Excellent - AI models can easily read and cite your content"
      [] category = "good" ->
            "Good - Most of your content is visible to AI models"
      [] category = "fair" ->
            "Fair - Some content may be missed by AI crawlers"
      [] OTHER ->
            "Poor - Significant content is hidden from AI models"

\* the metrics analyzeVisibility reports for texts of words1 and words2
\* words
VisibilityMetrics(words1, words2, similarity) ==
    [contentGain         |-> Round1(VisibilityContentGain(words1, words2)),
     missingWords        |-> Abs(words2 - words1),
     citationReadability |->
        MathRound(VisibilityCitationReadability(words1, words2)),
     similarity          |-> Round1(similarity),
     wordCount |->
        [initial    |-> words1,
         final      |-> words2,
         difference |-> words2 - words1]]

\* the value analyzeVisibility returns; the import().then() callback it
\* leaves behind is the pending counter of the action
analyzeVisibility(initialHtml, renderedHtml, options) ==
    LET ignoreNavFooter == options.ignoreNavFooter
        includeScore    == options.includeScore
        text1  == stripTagsToText(initialHtml, ignoreNavFooter)
        text2  == stripTagsToText(renderedHtml, ignoreNavFooter)
        words1 == countWords(text1)
        words2 == countWords(text2)
        similarity   == calculateSimilarity(text1, text2, "word")
        contentGain  == VisibilityContentGain(words1, words2)
        citationReadability == VisibilityCitationReadability(words1, words2)
        metrics  == VisibilityMetrics(words1, words2, similarity)
        score    == VisibilityScore(citationReadability, similarity, contentGain)
        category == VisibilityCategory(score)
        base ==
            [initialText |-> text1, finalText |-> text2, metrics |-> metrics]
    IN  IF includeScore
        THEN base @@ [visibilityScore |->
                        [score       |-> score,
                         category    |-> category,
                         description |-> VisibilityDescription(category)]]
        ELSE base

\* quickCompare dividing by the first word count whatever it is: x / 0 is
\* not a finite number
quickCompare_Unguarded(html1, html2, options) ==
    LET ignoreNavFooter == options.ignoreNavFooter
        text1  == stripTagsToText(html1, ignoreNavFooter)
        text2  == stripTagsToText(html2, ignoreNavFooter)
        words1 == countWords(text1)
        words2 == countWords(text2)
        similarity   == calculateSimilarity(text1, text2, "word")
        missingWords == Abs(words2 - words1)
    IN  [wordCount |->
            [first |-> words1, second |-> words2, difference |-> words2 - words1],
         contentGain  |-> IF words1 > 0 THEN Round1(Rat(words2, words1))
                                        ELSE [num |-> words2, den |-> 0],
         missingWords |-> missingWords,
         similarity   |-> Round1(similarity)]

quickCompare(html1, html2, options) ==
    LET ignoreNavFooter == options.ignoreNavFooter
        text1  == stripTagsToText(html1, ignoreNavFooter)
        text2  == stripTagsToText(html2, ignoreNavFooter)
        words1 == countWords(text1)
        words2 == countWords(text2)
        similarity   == calculateSimilarity(text1, text2, "word")
        contentGain  == IF words1 > 0 THEN Rat(words2, words1) ELSE Num(1)
        missingWords == Abs(words2 - words1)
    IN  [wordCount |->
            [first |-> words1, second |-> words2, difference |-> words2 - words1],
         contentGain  |-> Round1(contentGain),
         missingWords |-> missingWords,
         similarity   |-> Round1(similarity)]

\* generateRecommendations stopping at the first rule that applies
generateRecommendations_FirstMatch(metrics) ==
    IF RLt(metrics.citationReadability, Num(50))
    THEN <<"Consider implementing server-side rendering (SSR) to improve content visibility for AI crawlers">>
    ELSE IF RLt(Num(3), metrics.contentGain)
    THEN <<"Significant content is loaded via JavaScript - ensure critical content is present in initial HTML">>
    ELSE IF metrics.missingWords > 1000
    THEN <<"Large amount of content is missing from initial HTML - review your content loading strategy">>
    ELSE IF /\ RLe(Num(80), metrics.citationReadability)
            /\ RLt(metrics.contentGain, Rat(15, 10))
    THEN <<"Great job! Your content is well-optimized for AI visibility and citations">>
    ELSE <<>>

generateRecommendations(metrics) ==
    (IF RLt(metrics.citationReadability, Num(50))
     THEN <<"Consider implementing server-side rendering (SSR) to improve content visibility for AI crawlers">>
     ELSE <<>>)
    \o (IF RLt(Num(3), metrics.contentGain)
        THEN <<"Significant content is loaded via JavaScript - ensure critical content is present in initial HTML">>
        ELSE <<>>)
    \o (IF metrics.missingWords > 1000
        THEN <<"Large amount of content is missing from initial HTML - review your content loading strategy">>
        ELSE <<>>)
    \o (IF /\ RLe(Num(80), metrics.citationReadability)
           /\ RLt(metrics.contentGain, Rat(15, 10))
        THEN <<"Great job! Your content is well-optimized for AI visibility and citations">>
        ELSE <<>>)

\* the record getCitationReadiness builds from the analysis
CitationReadiness(analysis) ==
    LET scored == "visibilityScore" \in DOMAIN analysis
    IN  [score |->
            IF scored /\ analysis.visibilityScore.score # Num(0)
            THEN analysis.visibilityScore.score ELSE Num(0),
         category |->
            IF scored THEN analysis.visibilityScore.category ELSE "unknown",
         description |->
            IF scored THEN analysis.visibilityScore.description
                      ELSE "Analysis completed",
         metrics |->
            [citationReadability |-> analysis.metrics.citationReadability,
             contentGain         |-> analysis.metrics.contentGain,
             missingWords        |-> analysis.metrics.missingWords,
             similarity          |-> analysis.metrics.similarity],
         recommendations |-> generateRecommendations(analysis.metrics)]

getCitationReadiness(initialHtml, renderedHtml, options) ==
    CitationReadiness(analyzeVisibility(initialHtml, renderedHtml, options))

-----------------------------------------------------------------------------
(* browser.js: the browser entry point *)

BrowserRequired == [threw |-> TRUE, error |-> "browser-required"]

\* filterHtmlContent of browser.js with returnText = true: DOMParser only
browserFilterHtmlContent(htmlContent, ignoreNavFooter) ==
    IF IsEmptyHtml(htmlContent)
    THEN [threw |-> FALSE, value |-> <<>>]
    ELSE IF env # "browser"
    THEN BrowserRequired
    ELSE [threw |-> FALSE,
          value |-> TextContent(RemoveElements(htmlContent.nodes,
                                               ignoreNavFooter))]

browserStripTagsToText(htmlContent, ignoreNavFooter) ==
    browserFilterHtmlContent(htmlContent, ignoreNavFooter)

BrowserContentGain(initWords, finWords) ==
    IF initWords > 0 THEN Rat(finWords, initWords) ELSE Num(1)

BrowserCitationReadability(initWords, finWords) ==
    IF finWords > 0
    THEN MathMin(Num(100), RMul(Rat(initWords, finWords), Num(100)))
    ELSE Num(100)

\* analyzeContentDifference of browser.js on the two extracted texts
BrowserAnalysis(initText, finText) ==
    LET initWords == countWords(initText)
        finWords  == countWords(finText)
    IN  [initialText |-> initText,
         finalText   |-> finText,
         metrics     |->
            [contentGain  |-> Round1(BrowserContentGain(initWords, finWords)),
             missingWords |-> Abs(finWords - initWords),
             citationReadability |->
                MathRound(BrowserCitationReadability(initWords, finWords)),
             similarity |->
                Round1(calculateSimilarity(initText, finText, "word")),
             wordCount |->
                [initial    |-> initWords,
                 final      |-> finWords,
                 difference |-> finWords - initWords]]]

browserAnalyzeContentDifference(initHtml, finHtml, options) ==
    LET initText == browserStripTagsToText(initHtml, options.ignoreNavFooter)
        finText  == browserStripTagsToText(finHtml, options.ignoreNavFooter)
    IN  IF initText.threw \/ finText.threw
        THEN BrowserRequired
        ELSE [threw |-> FALSE,
              value |-> BrowserAnalysis(initText.value, finText.value)]

\* analyzeVisibility of browser.js
browserAnalyzeVisibility(initialHtml, renderedHtml, options) ==
    browserAnalyzeContentDifference(initialHtml, renderedHtml, options)

-----------------------------------------------------------------------------
(* Inputs *)

\* the sequences over S of length at most n
SeqsUpTo(S, n) == UNION {[1..k -> S] : k \in 0..n}

\* an element with text only
Leaf(tag, text) == [tag |-> tag, text |-> text, children |-> <<>>]

\* <p>a <strong>b </strong></p>
Paragraph ==
    [tag |-> "p", text |-> <<"a", " ">>,
     children |-> <<Leaf("strong", <<"b", " ">>)>>]

\* <nav><script>b </script><a>a</a></nav>: its text runs into the next
\* node's
NavBar ==
    [tag |-> "nav", text |-> <<>>,
     children |-> <<Leaf("script", <<"b", " ">>), Leaf("a", <<"a">>)>>]

\* the element nodes bodies are built from: a two-word paragraph, a
\* navigation bar and a script
Nodes == {Paragraph, NavBar, Leaf("script", <<"b", " ">>)}

NullHtml == [isNull |-> TRUE, head |-> <<>>, nodes |-> <<>>]

\* the empty string
EmptyHtml == [isNull |-> FALSE, head |-> <<>>, nodes |-> <<>>]

\* <html><head><title>b </title></head><body>a paragraph</body></html>
TitledHtml ==
    [isNull |-> FALSE, head |-> <<Leaf("title", <<"b", " ">>)>>,
     nodes |-> <<Paragraph>>]

Htmls ==
    {NullHtml, TitledHtml}
    \cup {[isNull |-> FALSE, head |-> <<>>, nodes |-> ns] :
             ns \in SeqsUpTo(Nodes, MaxNodes)}

Envs == {"node", "browser"}

FilterOptions == [ignoreNavFooter : BOOLEAN]
Options       == [ignoreNavFooter : BOOLEAN, includeScore : BOOLEAN]

NoValue == [none |-> TRUE]

-----------------------------------------------------------------------------
(* The entry points: one call of one entry point on a pair of documents *)

Init ==
    /\ env \in Envs
    /\ input1 \in Htmls
    /\ input2 \in Htmls
    /\ op = "none"
    /\ args = NoValue
    /\ result = NoValue
    /\ pending = 0
    /\ calls = <<>>
    /\ NoTiming

AnalyzeContentDifference(options) ==
    /\ op = "none"
    /\ op' = "analyzeContentDifference"
    /\ args' = [options |-> options]
    /\ result' = analyzeContentDifference(input1, input2, options)
    /\ UNCHANGED <<env, input1, input2, pending, calls,
                   timing>>

\* generateVisibilityScore on the analysis just returned
GenerateVisibilityScore ==
    /\ op = "analyzeContentDifference"
    /\ op' = "generateVisibilityScore"
    /\ args' = [analysis |-> result]
    /\ result' = generateVisibilityScore(result)
    /\ UNCHANGED <<env, input1, input2, pending, calls,
                   timing>>

\* analyzeVisibility: starts the dynamic import, whose callback runs later,
\* and returns the synchronous analysis
AnalyzeVisibility(options) ==
    /\ op = "none"
    /\ op' = "analyzeVisibility"
    /\ args' = [options |-> options]
    /\ result' = analyzeVisibility(input1, input2, options)
    /\ pending' = pending + 1
    /\ UNCHANGED <<env, input1, input2, calls,
                   timing>>

QuickCompare(options) ==
    /\ op = "none"
    /\ op' = "quickCompare"
    /\ args' = [options |-> options]
    /\ result' = quickCompare(input1, input2, options)
    /\ UNCHANGED <<env, input1, input2, pending, calls,
                   timing>>

\* getCitationReadiness calls analyzeVisibility, dynamic import included
GetCitationReadiness(options) ==
    /\ op = "none"
    /\ op' = "getCitationReadiness"
    /\ args' = [options |-> options]
    /\ result' = getCitationReadiness(input1, input2, options)
    /\ pending' = pending + 1
    /\ UNCHANGED <<env, input1, input2, calls,
                   timing>>

\* the then() callback of one dynamic import runs; the value it computes is
\* dropped
\* analyzeVisibility of the browser entry point
BrowserAnalyzeVisibility(options) ==
    /\ op = "none"
    /\ op' = "browserAnalyzeVisibility"
    /\ args' = [options |-> options]
    /\ result' = browserAnalyzeVisibility(input1, input2, options)
    /\ UNCHANGED <<env, input1, input2, pending, calls,
                   timing>>

ImportResolved ==
    /\ pending > 0
    /\ pending' = pending - 1
    /\ UNCHANGED <<env, input1, input2, op, args, result, calls,
                   timing>>

Next ==
    \/ \E o \in FilterOptions : AnalyzeContentDifference(o)
    \/ GenerateVisibilityScore
    \/ \E o \in Options : AnalyzeVisibility(o)
    \/ \E o \in FilterOptions : QuickCompare(o)
    \/ \E o \in Options : GetCitationReadiness(o)
    \/ \E o \in FilterOptions : BrowserAnalyzeVisibility(o)
    \/ ImportResolved

Spec == Init /\ [][Next]_vars

-----------------------------------------------------------------------------
(* The text functions: one call on a pair of texts *)

\* what texts are made of: two words followed by a space, and a line break
TextPieces == {<<"a", " ">>, <<"b", " ">>, <<"\n">>}

Texts == {Concat(ps) : ps \in SeqsUpTo(TextPieces, MaxPieces)}

Modes == {"word", "line"}

InitText ==
    /\ env = "node"
    /\ input1 \in Texts
    /\ input2 \in Texts
    /\ op = "none"
    /\ args = NoValue
    /\ result = NoValue
    /\ pending = 0
    /\ calls = <<>>
    /\ NoTiming

\* tokenize on the first text
Tokenize(mode) ==
    /\ op = "none"
    /\ op' = "tokenize"
    /\ args' = [mode |-> mode]
    /\ result' = [tokens |-> tokenize(input1, mode)]
    /\ UNCHANGED <<env, input1, input2, pending, calls,
                   timing>>

GenerateDiffReport(mode) ==
    /\ op = "none"
    /\ op' = "generateDiffReport"
    /\ args' = [mode |-> mode]
    /\ result' = generateDiffReport(input1, input2, mode)
    /\ UNCHANGED <<env, input1, input2, pending, calls,
                   timing>>

CalculateSimilarity(mode) ==
    /\ op = "none"
    /\ op' = "calculateSimilarity"
    /\ args' = [mode |-> mode]
    /\ result' = [similarity |-> calculateSimilarity(input1, input2, mode)]
    /\ UNCHANGED <<env, input1, input2, pending, calls,
                   timing>>

NextText ==
    \/ \E mode \in Modes : Tokenize(mode)
    \/ \E mode \in Modes : GenerateDiffReport(mode)
    \/ \E mode \in Modes : CalculateSimilarity(mode)

SpecText == InitText /\ [][NextText]_vars

-----------------------------------------------------------------------------
(* The scoring functions: one call on word counts or on a metrics record *)

\* citationReadability, similarity and contentGain values spread over
\* their ranges: sixths of 100, and halves up to MaxCount
ReadabilityValues == {Num((100 * k) \div MaxCount) : k \in 0..MaxCount}
SimilarityValues  == {Rat((1000 * k) \div MaxCount, 10) : k \in 0..MaxCount}
GainValues        == {Rat(k, 2) : k \in 0..(2 * MaxCount)}

MetricsRecords ==
    [citationReadability : ReadabilityValues,
     similarity          : SimilarityValues,
     contentGain         : GainValues]

\* token counts of short and of long texts
LengthValues == (0..3) \cup {LongText - 1, LongText, 4 * LongText}

\* the alignments of two token sequences by their sizes: the lengths of the
\* sequences and the number of tokens of their longest common subsequence
Alignments ==
    {al \in [len1 : LengthValues, len2 : LengthValues,
             same : (0..3) \cup LengthValues
                    \cup {LongText - 2, 4 * LongText - 1}] :
        /\ al.same <= al.len1
        /\ al.same <= al.len2}

\* word counts of short and of long texts
WordCounts ==
    (0..MaxCount)
    \cup {LongText - 1, LongText, 2 * LongText, 3 * LongText, 10 * LongText,
          11 * LongText}

\* numbers to format: around one thousand, ten thousand and one million
FormatNumbers ==
    {0, 7, Thousand - 1, Thousand, Thousand + 500, TenThousand - 1,
     TenThousand, TenThousand + 500, TenThousand + 2340, Million - 60,
     Million - 1, Million, Million + 500000, 2 * Million + 560000}

InitScore ==
    /\ env = "node"
    /\ \/ /\ input1 \in WordCounts
          /\ input2 \in WordCounts
          /\ args = [given |-> "counts"]
       \/ /\ input1 \in MetricsRecords
          /\ input2 = NoValue
          /\ args = [given |-> "metrics"]
       \/ /\ input1 \in Alignments
          /\ input2 = NoValue
          /\ args = [given |-> "alignment"]
       \/ /\ input1 \in FormatNumbers
          /\ input2 = NoValue
          /\ args = [given |-> "number"]
    /\ op = "none"
    /\ result = NoValue
    /\ pending = 0
    /\ calls = <<>>
    /\ NoTiming

CalculateCitationReadability ==
    /\ op = "none"
    /\ args.given = "counts"
    /\ op' = "calculateCitationReadability"
    /\ result' = [citationReadability |->
                    calculateCitationReadability(input1, input2)]
    /\ UNCHANGED <<env, input1, input2, args, pending, calls,
                   timing>>

\* generateVisibilityScore on an analysis with the given metrics
ScoreMetrics ==
    /\ op = "none"
    /\ args.given = "metrics"
    /\ op' = "generateVisibilityScore"
    /\ result' = generateVisibilityScore([metrics |-> input1])
    /\ UNCHANGED <<env, input1, input2, args, pending, calls,
                   timing>>

\* the last step of calculateSimilarity on the counts of an alignment
SimilarityOfAlignment ==
    /\ op = "none"
    /\ args.given = "alignment"
    /\ op' = "calculateSimilarity"
    /\ result' = [similarity |->
                    SimilarityRatio(input1.same, input1.len1 + input1.len2)]
    /\ UNCHANGED <<env, input1, input2, args, pending, calls,
                   timing>>

\* generateRecommendations on the metrics analyzeVisibility reports for
\* texts of input1 and input2 words, the shorter contained in the longer
GenerateRecommendations ==
    /\ op = "none"
    /\ args.given = "counts"
    /\ op' = "generateRecommendations"
    /\ result' =
          [metrics |->
              VisibilityMetrics(input1, input2,
                  SimilarityRatio(IF input1 < input2 THEN input1 ELSE input2,
                                  input1 + input2)),
           recommendations |->
              generateRecommendations(
                  VisibilityMetrics(input1, input2,
                      SimilarityRatio(IF input1 < input2 THEN input1
                                                         ELSE input2,
                                      input1 + input2)))]
    /\ UNCHANGED <<env, input1, input2, args, pending, calls,
                   timing>>

FormatNumberToK ==
    /\ op = "none"
    /\ args.given = "number"
    /\ op' = "formatNumberToK"
    /\ result' = [formatted |-> formatNumberToK(input1)]
    /\ UNCHANGED <<env, input1, input2, args, pending, calls,
                   timing>>

NextScore ==
    \/ GenerateRecommendations
    \/ FormatNumberToK
    \/ CalculateCitationReadability
    \/ ScoreMetrics
    \/ SimilarityOfAlignment

SpecScore == InitScore /\ [][NextScore]_vars

-----------------------------------------------------------------------------
(* A session on two documents: entry points called one after the other    *)
(* with any option flags.  calls keeps the first call of the session, the  *)
(* other variables the last one.                                           *)

\* the documents of a session: no markup, and a navigation bar before a
\* paragraph
SessionHtmls ==
    {NullHtml,
     [isNull |-> FALSE, head |-> <<>>, nodes |-> <<NavBar, Paragraph>>]}

\* the entry points that take two documents and options
EntryPoints ==
    {"analyzeContentDifference", "analyzeVisibility", "quickCompare",
     "getCitationReadiness"}

\* the options an entry point reads
OptionsOf(kind) ==
    IF kind \in {"analyzeVisibility", "getCitationReadiness"}
    THEN Options
    ELSE FilterOptions

\* the value entry point kind returns
Apply(kind, h1, h2, options) ==
    CASE kind = "analyzeContentDifference" ->
            analyzeContentDifference(h1, h2, options)
      [] kind = "analyzeVisibility" -> analyzeVisibility(h1, h2, options)
      [] kind = "quickCompare" -> quickCompare(h1, h2, options)
      [] kind = "getCitationReadiness" ->
            getCitationReadiness(h1, h2, options)

\* the analyses generateVisibilityScore is called on in a session
SessionAnalyses ==
    {analyzeContentDifference(input1, input2, o) : o \in FilterOptions}

\* calls once a call of kind with arguments a has returned value
Logged(kind, a, value) ==
    IF calls = <<>>
    THEN <<[op |-> kind, args |-> a, result |-> value]>>
    ELSE calls

InitSession ==
    /\ env \in Envs
    /\ input1 \in SessionHtmls
    /\ input2 \in SessionHtmls
    /\ op = "none"
    /\ args = NoValue
    /\ result = NoValue
    /\ pending = 0
    /\ calls = <<>>
    /\ NoTiming

\* a call of an entry point on the two documents
Call(kind, options) ==
    /\ kind \in {"analyzeVisibility", "getCitationReadiness"} =>
          pending < MaxPending
    /\ op' = kind
    /\ args' = [options |-> options]
    /\ result' = Apply(kind, input1, input2, options)
    /\ pending' = IF kind \in {"analyzeVisibility", "getCitationReadiness"}
                  THEN pending + 1
                  ELSE pending
    /\ calls' = Logged(kind, args', result')
    /\ UNCHANGED <<env, input1, input2,
                   timing>>

\* a call of generateVisibilityScore on an analysis
ScoreCall(analysis) ==
    /\ op' = "generateVisibilityScore"
    /\ args' = [analysis |-> analysis]
    /\ result' = generateVisibilityScore(analysis)
    /\ calls' = Logged("generateVisibilityScore", args', result')
    /\ UNCHANGED <<env, input1, input2, pending,
                   timing>>

NextSession ==
    \/ \E kind \in EntryPoints :
          \E options \in OptionsOf(kind) : Call(kind, options)
    \/ \E analysis \in SessionAnalyses : ScoreCall(analysis)
    \/ ImportResolved

SpecSession == InitSession /\ [][NextSession]_vars

-----------------------------------------------------------------------------
(* Two comparisons in progress at once.  diffTokens tokenizes its texts,   *)
(* maps the tokens of text1 and then of text2 to integers one at a time    *)
(* through the map sym it created, and aligns the integer sequences; the   *)
(* steps of the two comparisons interleave in any order.                   *)

\* the texts compared: none, one and two words, in both orders
CompareTexts ==
    {<<>>, <<"b", " ">>, <<"a", " ", "b", " ">>, <<"b", " ", "a", " ">>}

TextPairs == [text1 : CompareTexts, text2 : CompareTexts]

\* a comparison that has tokenized its texts and mapped nothing yet
NewComparison(texts) ==
    [A    |-> tokenize(texts.text1, "word"),
     B    |-> tokenize(texts.text2, "word"),
     sym  |-> <<>>,
     a    |-> <<>>,
     b    |-> <<>>,
     done |-> FALSE,
     ops  |-> <<>>]

\* SymOf where every comparison reads the map of the first one
SymOf_FirstCall(c) == calls[1].sym

\* the map sym the mapTok closure of comparison c reads and extends
SymOf(c) == calls[c].sym

\* comparison cmp once mapTok has mapped its next token t through sym
Mapped(cmp, t, sym) ==
    IF Len(cmp.a) < Len(cmp.A)
    THEN [cmp EXCEPT !.sym = sym, !.a = Append(cmp.a, mapTok(sym, t))]
    ELSE [cmp EXCEPT !.sym = sym, !.b = Append(cmp.b, mapTok(sym, t))]

\* the next token comparison cmp has to map
NextToken(cmp) ==
    IF Len(cmp.a) < Len(cmp.A) THEN cmp.A[Len(cmp.a) + 1]
                               ELSE cmp.B[Len(cmp.b) + 1]

InitCompare ==
    /\ env = "node"
    /\ input1 \in TextPairs
    /\ input2 \in TextPairs
    /\ op = "none"
    /\ args = NoValue
    /\ result = NoValue
    /\ pending = 0
    /\ calls = <<NewComparison(input1), NewComparison(input2)>>
    /\ NoTiming

\* comparison c maps its next token
MapToken(c) ==
    /\ ~calls[c].done
    /\ Len(calls[c].a) < Len(calls[c].A) \/ Len(calls[c].b) < Len(calls[c].B)
    /\ calls' = [calls EXCEPT ![c] =
                    Mapped(calls[c], NextToken(calls[c]),
                           SymbolTable(<<NextToken(calls[c])>>, SymOf(c)))]
    /\ op' = "mapTok"
    /\ args' = [call |-> c]
    /\ result' = NoValue
    /\ UNCHANGED <<env, input1, input2, pending,
                   timing>>

\* the operations of comparison cmp, every token mapped
Aligned(cmp) ==
    Reverse(Backtrack(cmp.A, cmp.B, cmp.a, cmp.b, LcsTable(cmp.a, cmp.b),
                      Len(cmp.A), Len(cmp.B)))

\* comparison c, every token mapped, builds the table, walks it back and
\* returns
Align(c) ==
    /\ ~calls[c].done
    /\ Len(calls[c].a) = Len(calls[c].A)
    /\ Len(calls[c].b) = Len(calls[c].B)
    /\ calls' = [calls EXCEPT ![c].done = TRUE, ![c].ops = Aligned(calls[c])]
    /\ op' = "diffTokens"
    /\ args' = [call |-> c]
    /\ result' = [operations |-> Aligned(calls[c])]
    /\ UNCHANGED <<env, input1, input2, pending,
                   timing>>

NextCompare ==
    \/ \E c \in 1..2 : MapToken(c)
    \/ \E c \in 1..2 : Align(c)

SpecCompare == InitCompare /\ [][NextCompare]_vars

-----------------------------------------------------------------------------
(* The text functions called with any mode string *)

\* mode strings a caller passes: the two modes and an unsupported one
ModeStrings == Modes \cup {"char"}

\* the text functions that tokenize with the mode they are given
TextFunctions ==
    {"tokenize", "diffTokens", "generateDiffReport", "calculateSimilarity"}

\* the value text function kind returns for a supported mode
ApplyText(kind, text1, text2, mode) ==
    CASE kind = "tokenize" -> tokenize(text1, mode)
      [] kind = "diffTokens" -> diffTokens(text1, text2, mode)
      [] kind = "generateDiffReport" -> generateDiffReport(text1, text2, mode)
      [] kind = "calculateSimilarity" ->
            calculateSimilarity(text1, text2, mode)

InitMode ==
    /\ env = "node"
    /\ input1 \in CompareTexts
    /\ input2 \in CompareTexts
    /\ op = "none"
    /\ args = NoValue
    /\ result = NoValue
    /\ pending = 0
    /\ calls = <<>>
    /\ NoTiming

\* a call of a text function: tokenize comes first in each of them, and
\* its failure ends the call
CallText(kind, mode) ==
    /\ op = "none"
    /\ op' = kind
    /\ args' = [mode |-> mode]
    /\ result' = IF tokenizeThrows(mode)
                 THEN tokenize(input1, mode)
                 ELSE [threw |-> FALSE,
                       value |-> ApplyText(kind, input1, input2, mode)]
    /\ UNCHANGED <<env, input1, input2, pending, calls,
                   timing>>

NextMode ==
    \E kind \in TextFunctions, mode \in ModeStrings : CallText(kind, mode)

SpecMode == InitMode /\ [][NextMode]_vars

-----------------------------------------------------------------------------
(* Word tokenization of texts with URLs and punctuation *)

\* what the texts are built from: a URL, a URL with a comma in it, a word,
\* a space, a comma and a full stop
UrlPieces ==
    {<<Scheme, "a">>, <<Scheme, "a", ",", "b">>, <<"a">>, <<" ">>, <<",">>,
     <<".">>}

UrlTexts == {Concat(ps) : ps \in SeqsUpTo(UrlPieces, MaxUrlPieces)}

InitUrl ==
    /\ env = "node"
    /\ input1 \in UrlTexts
    /\ input2 = NoValue
    /\ op = "none"
    /\ args = NoValue
    /\ result = NoValue
    /\ pending = 0
    /\ calls = <<>>
    /\ NoTiming

\* tokenize(text, mode) on a text with URLs
TokenizeUrls(mode) ==
    /\ op = "none"
    /\ op' = "tokenize"
    /\ args' = [mode |-> mode]
    /\ result' = [tokens |-> tokenize(input1, mode)]
    /\ UNCHANGED <<env, input1, input2, pending, calls,
                   timing>>

NextUrl == \E mode \in Modes : TokenizeUrls(mode)

SpecUrl == InitUrl /\ [][NextUrl]_vars

-----------------------------------------------------------------------------
(* utils.js: debounce and throttle.  input1 is the wait or the limit, calls *)
(* the calls of the returned function, invoked the invocations of func.     *)

\* clearTimeout(id)
ClearTimeout(ts, id) == {t \in ts : t.id # id}

\* the arguments of the calls
CallArgs == {"x", "y"}

InitTimers ==
    /\ env = "node"
    /\ input1 \in 0..MaxWait
    /\ input2 = NoValue
    /\ op = "none"
    /\ args = NoValue
    /\ result = NoValue
    /\ pending = 0
    /\ calls = <<>>
    /\ NoTiming

\* a millisecond passes
Tick ==
    /\ now < MaxTime
    /\ now' = now + 1
    /\ op' = "tick"
    /\ UNCHANGED <<inputs, args, calls, timers, timeout, inThrottle, invoked>>

\* the timers a call of the debounced function leaves without clearTimeout
debounceTimers_NoClear(ts, id, a) ==
    ts \cup {[id |-> id, due |-> now + input1, args |-> a]}

\* the timers after a call of the debounced function: clearTimeout(timeout),
\* then setTimeout(later, wait)
debounceTimers(ts, id, a) ==
    ClearTimeout(ts, timeout)
        \cup {[id |-> id, due |-> now + input1, args |-> a]}

\* executedFunction(...args) of debounce(func, wait)
DebouncedCall(a) ==
    /\ Len(calls) < MaxCalls
    /\ now + input1 <= MaxTime
    /\ op' = "executedFunction"
    /\ args' = [args |-> a]
    /\ calls' = Append(calls, [args |-> a, time |-> now])
    /\ timers' = debounceTimers(timers, Len(calls) + 1, a)
    /\ timeout' = Len(calls) + 1
    /\ UNCHANGED <<inputs, now, inThrottle, invoked>>

\* later() of debounce, run by the timer t once it is due
Later(t) ==
    /\ t \in timers
    /\ t.due <= now
    /\ op' = "later"
    /\ timers' = ClearTimeout(timers \ {t}, timeout)
    /\ invoked' = Append(invoked, [id |-> t.id, args |-> t.args, time |-> now])
    /\ UNCHANGED <<inputs, args, calls, now, timeout, inThrottle>>

NextDebounce ==
    \/ \E a \in CallArgs : DebouncedCall(a)
    \/ \E t \in timers : Later(t)
    \/ Tick

SpecDebounce == InitTimers /\ [][NextDebounce]_vars

\* time passes, and a timer that is due runs
FairDebounce ==
    /\ SpecDebounce
    /\ WF_vars(Tick)
    /\ WF_vars(\E t \in timers : Later(t))

\* whether a call of the throttled function invokes func, were it to
\* invoke it on every call
throttleInvokes_Always(open) == TRUE

\* if (!inThrottle)
throttleInvokes(open) == ~open

\* the function throttle(func, limit) returns, called with args
ThrottledCall(a) ==
    /\ Len(calls) < MaxCalls
    /\ now + input1 <= MaxTime
    /\ op' = "throttled"
    /\ args' = [args |-> a]
    /\ calls' = Append(calls, [args |-> a, time |-> now])
    /\ IF throttleInvokes(inThrottle)
       THEN /\ invoked' = Append(invoked, [id |-> Len(calls) + 1,
                                           args |-> a, time |-> now])
            /\ inThrottle' = TRUE
            /\ timers' = timers \cup {[id |-> Len(calls) + 1,
                                       due |-> now + input1, args |-> a]}
       ELSE UNCHANGED <<invoked, inThrottle, timers>>
    /\ UNCHANGED <<inputs, now, timeout>>

\* () => inThrottle = false, run by the timer t once it is due
EndThrottle(t) ==
    /\ t \in timers
    /\ t.due <= now
    /\ op' = "endThrottle"
    /\ inThrottle' = FALSE
    /\ timers' = timers \ {t}
    /\ UNCHANGED <<inputs, args, calls, now, timeout, invoked>>

NextThrottle ==
    \/ \E a \in CallArgs : ThrottledCall(a)
    \/ \E t \in timers : EndThrottle(t)
    \/ Tick

SpecThrottle == InitTimers /\ [][NextThrottle]_vars

\* time passes, and a timer that is due runs
FairThrottle ==
    /\ SpecThrottle
    /\ WF_vars(Tick)
    /\ WF_vars(\E t \in timers : EndThrottle(t))

-----------------------------------------------------------------------------
(* Properties of the entry points (Spec) *)

\* the calls that take the two documents and options
DocumentCalls ==
    {"analyzeContentDifference", "analyzeVisibility", "quickCompare",
     "getCitationReadiness"}

\* word counts of the two documents as the call made extracts them
Count1 == countWords(stripTagsToText(input1, args.options.ignoreNavFooter))
Count2 == countWords(stripTagsToText(input2, args.options.ignoreNavFooter))

\* C1: a document analysed against itself, also one that extracts to empty
\* text, has contentGain 1, missingWords 0 and citationReadability 100, and
\* its visibility score is above 90.
C1_IdenticalContent ==
    input1 = input2 =>
        /\ op \in {"analyzeContentDifference", "analyzeVisibility"} =>
              /\ result.metrics.contentGain = Num(1)
              /\ result.metrics.missingWords = 0
              /\ result.metrics.citationReadability = Num(100)
        /\ op = "generateVisibilityScore" => RLt(Num(90), result.score)
        /\ (op = "analyzeVisibility" /\ args.options.includeScore) =>
              RLt(Num(90), result.visibilityScore.score)

\* a document with no words was analysed against itself and scored
C1_Witness ==
    /\ input1 = input2
    /\ op = "generateVisibilityScore"
    /\ args.analysis.metrics.wordCount.initial = 0
    /\ input1.nodes # <<>>

HasScore ==
    \/ op \in {"generateVisibilityScore", "getCitationReadiness"}
    \/ op = "analyzeVisibility" /\ args.options.includeScore

Score ==
    IF op = "analyzeVisibility" THEN result.visibilityScore.score
                                ELSE result.score

ScoreCategory ==
    IF op = "analyzeVisibility" THEN result.visibilityScore.category
                                ELSE result.category

ScoreDescription ==
    IF op = "analyzeVisibility" THEN result.visibilityScore.description
                                ELSE result.description

\* C5: the score generateVisibilityScore, analyzeVisibility and
\* getCitationReadiness return is an integer from 0 to 100.
C5_ScoreRange ==
    HasScore =>
        /\ IsInteger(Score)
        /\ 0 <= Score.num
        /\ Score.num <= 100

\* getCitationReadiness returned a score strictly inside the range for
\* documents of different word counts
C5_Witness ==
    /\ op = "getCitationReadiness"
    /\ args.options.includeScore
    /\ result.metrics.missingWords > 0
    /\ 0 < result.score.num
    /\ result.score.num < 100

\* the metrics record a call returned
HasMetrics == op \in DocumentCalls

Metrics == IF op = "quickCompare" THEN result ELSE result.metrics

\* C7: citationReadability and similarity of every metrics record an entry
\* point returns are within 0..100.
C7_MetricsRange ==
    HasMetrics =>
        /\ RLe(Num(0), Metrics.similarity)
        /\ RLe(Metrics.similarity, Num(100))
        /\ op # "quickCompare" =>
              /\ RLe(Num(0), Metrics.citationReadability)
              /\ RLe(Metrics.citationReadability, Num(100))

\* analyzeVisibility was called with more words in the initial content than
\* in the final content, where the ratio of the counts is above 100%
C7_Witness ==
    /\ op = "analyzeVisibility"
    /\ Count1 > Count2
    /\ Count2 > 0
    /\ result.metrics.citationReadability = Num(100)

\* C8 as stated: analyzeContentDifference reports contentGain equal to
\* count2 / count1 when count1 > 0, and 1 when count1 = 0.
C8_AsStated ==
    op = "analyzeContentDifference" =>
        IF Count1 > 0
        THEN result.metrics.contentGain.num * Count1
                = Count2 * result.metrics.contentGain.den
        ELSE result.metrics.contentGain = Num(1)

\* C8 amended: analyzeContentDifference reports contentGain equal to
\* count2 / count1 rounded to one decimal (halves up) when count1 > 0, and
\* 1 when count1 = 0.
C8_RoundedContentGain ==
    op = "analyzeContentDifference" =>
        LET gain   == result.metrics.contentGain
            tenths == (gain.num * 10) \div gain.den
        IN  IF Count1 > 0
            THEN /\ gain.num * 10 = tenths * gain.den
                 /\ 2 * tenths * Count1 <= 20 * Count2 + Count1
                 /\ 20 * Count2 + Count1 < 2 * (tenths + 1) * Count1
            ELSE gain = Num(1)

\* analyzeContentDifference was called on three words against two, a ratio
\* with no one-decimal value
C8_Witness ==
    /\ op = "analyzeContentDifference"
    /\ Count1 = 3
    /\ Count2 = 2
    /\ result.metrics.contentGain = Rat(7, 10)

\* C4: the category is decided by the score with inclusive lower bounds
\* 90, 70 and 50, exactly one of the four categories is assigned, and each
\* category carries its own fixed description.
C4_CategoryThresholds ==
    (HasScore /\ (op = "getCitationReadiness" => args.options.includeScore)) =>
        /\ IsInteger(Score)
        /\ ScoreCategory \in {"excellent", "good", "fair", "poor"}
        /\ ScoreCategory = "excellent" <=> Score.num >= 90
        /\ ScoreCategory = "good" <=> (70 <= Score.num /\ Score.num < 90)
        /\ ScoreCategory = "fair" <=> (50 <= Score.num /\ Score.num < 70)
        /\ ScoreCategory = "poor" <=> Score.num < 50
        /\ ScoreCategory = "excellent" =>
              ScoreDescription
                = "Excellent - AI models can easily read and cite your content"
        /\ ScoreCategory = "good" =>
              ScoreDescription
                = "Good - Most of your content is visible to AI models"
        /\ ScoreCategory = "fair" =>
              ScoreDescription
                = "Fair - Some content may be missed by AI crawlers"
        /\ ScoreCategory = "poor" =>
              ScoreDescription
                = "Poor - Significant content is hidden from AI models"

\* generateVisibilityScore returned a score on a lower bound
C4_Witness ==
    /\ op = "generateVisibilityScore"
    /\ result.score = Num(90)
    /\ result.category = "excellent"

\* a defined finite number: not NaN, not an infinity
IsFinite(x) == x.num \in Int /\ x.den \in Nat /\ x.den > 0

\* the metrics are all defined finite numbers
FiniteMetrics(m) ==
    /\ IsFinite(m.contentGain)
    /\ IsFinite(m.similarity)
    /\ IsFinite(m.citationReadability)
    /\ m.missingWords \in Nat

\* the extracted texts of the two documents in the call made
Text1 == stripTagsToText(input1, args.options.ignoreNavFooter)
Text2 == stripTagsToText(input2, args.options.ignoreNavFooter)

\* C19: no entry point fails on empty or null content: for every pair of
\* documents, null and empty ones included, analyzeContentDifference,
\* analyzeVisibility, quickCompare and getCitationReadiness return a record
\* with all its fields, whose numbers are defined and finite; an empty text
\* has word count 0, and empty and blank texts tokenize to no tokens.
C19_Total ==
    /\ op = "analyzeContentDifference" =>
          /\ DOMAIN result =
                {"initialText", "finalText", "initialTextLength",
                 "finalTextLength", "textRetention", "wordDiff", "lineDiff",
                 "metrics"}
          /\ FiniteMetrics(result.metrics)
          /\ IsFinite(result.textRetention)
          /\ result.initialTextLength \in Nat
          /\ result.finalTextLength \in Nat
          /\ \A d \in {result.wordDiff, result.lineDiff} :
                d.same \in Nat /\ d.added \in Nat /\ d.removed \in Nat
    /\ op = "analyzeVisibility" =>
          /\ {"initialText", "finalText", "metrics"} \subseteq DOMAIN result
          /\ FiniteMetrics(result.metrics)
          /\ args.options.includeScore =>
                IsFinite(result.visibilityScore.score)
    /\ op = "quickCompare" =>
          /\ DOMAIN result =
                {"wordCount", "contentGain", "missingWords", "similarity"}
          /\ IsFinite(result.contentGain)
          /\ IsFinite(result.similarity)
          /\ result.missingWords \in Nat
          /\ result.wordCount.first \in Nat
          /\ result.wordCount.second \in Nat
    /\ op = "getCitationReadiness" =>
          /\ DOMAIN result =
                {"score", "category", "description", "metrics",
                 "recommendations"}
          /\ IsFinite(result.score)
          /\ FiniteMetrics(result.metrics)
    /\ op \in {"analyzeContentDifference", "analyzeVisibility"} =>
          /\ Text1 = <<>> => result.metrics.wordCount.initial = 0
          /\ Text2 = <<>> => result.metrics.wordCount.final = 0
          /\ result.metrics.wordCount.initial \in Nat
          /\ result.metrics.wordCount.final \in Nat
    /\ \A mode \in Modes :
          /\ tokenize(<<>>, mode) = <<>>
          /\ tokenize(<<" ", "\n", " ">>, mode) = <<>>
    /\ countWords(<<>>) = 0

\* quickCompare was called on null markup and the empty string, where both
\* word counts are 0
C19_Witness ==
    /\ op = "quickCompare"
    /\ input1 = NullHtml
    /\ input2 = EmptyHtml
    /\ result.wordCount.first = 0
    /\ result.wordCount.second = 0

\* C17 as stated: every entry point completes within its call: once it
\* has returned, nothing of its computation is pending and no callback of
\* it is left to run.
C17_AsStated == op # "none" => pending = 0

-----------------------------------------------------------------------------
(* Properties of the scoring functions (SpecScore) *)

\* C3: generateVisibilityScore returns
\* round(0.5 * citationReadability + 0.3 * similarity + 0.2 * normalizedGain)
\* with normalizedGain = 100 - (contentGain - 1) * 50 clamped to 0..100:
\* 100 at contentGain 1 and below, 0 at contentGain 3 and above.
C3_WeightedScore ==
    op = "generateVisibilityScore" =>
        LET c  == input1.citationReadability
            s  == input1.similarity
            g  == input1.contentGain
            \* normalizedGain as a fraction gainN / gainD
            gainD == g.den
            gainN == IF g.num >= 3 * g.den THEN 0
                     ELSE IF g.num <= g.den THEN 100 * g.den
                     ELSE 150 * g.den - 50 * g.num
            \* the weighted sum as a fraction sumN / sumD
            sumD == 10 * c.den * s.den * gainD
            sumN == 5 * c.num * s.den * gainD
                    + 3 * s.num * c.den * gainD
                    + 2 * gainN * c.den * s.den
        IN  /\ result.breakdown.contentGain.num * gainD
                  = gainN * result.breakdown.contentGain.den
            /\ g = Num(1) => result.breakdown.contentGain = Num(100)
            /\ g = Num(3) => result.breakdown.contentGain = Num(0)
            /\ RLt(Num(3), g) => result.breakdown.contentGain = Num(0)
            /\ RLt(g, Num(1)) => result.breakdown.contentGain = Num(100)
            /\ result.score = Num((2 * sumN + sumD) \div (2 * sumD))

\* a record with contentGain above 3 was scored
C3_Witness ==
    /\ op = "generateVisibilityScore"
    /\ args.given = "metrics"
    /\ RLt(Num(3), input1.contentGain)
    /\ result.breakdown.contentGain = Num(0)
    /\ RLt(Num(0), result.score)

\* C6: calculateCitationReadability(count1, count2) is 100 when count2 is 0
\* and min(100, count1 / count2 * 100) otherwise.
C6_CitationReadability ==
    op = "calculateCitationReadability" =>
        LET r == result.citationReadability
        IN  IF input2 = 0 THEN r = Num(100)
            ELSE IF input1 >= input2 THEN r = Num(100)
            ELSE r.num * input2 = 100 * input1 * r.den

\* calculateCitationReadability was called with no initial words and some
\* final words
C6_Witness ==
    /\ op = "calculateCitationReadability"
    /\ input1 = 0
    /\ input2 > 0
    /\ result.citationReadability = Num(0)

\* the messages of the four rules, in the order of evaluation
RuleMessages ==
    <<"Consider implementing server-side rendering (SSR) to improve content visibility for AI crawlers",
      "Significant content is loaded via JavaScript - ensure critical content is present in initial HTML",
      "Large amount of content is missing from initial HTML - review your content loading strategy",
      "Great job! Your content is well-optimized for AI visibility and citations">>

\* the condition of rule k on a metrics record, on fractions
RuleHolds(k, m) ==
    CASE k = 1 -> m.citationReadability.num < 50 * m.citationReadability.den
      [] k = 2 -> m.contentGain.num > 3 * m.contentGain.den
      [] k = 3 -> m.missingWords > 1000
      [] k = 4 -> /\ m.citationReadability.num >= 80 * m.citationReadability.den
                  /\ 2 * m.contentGain.num < 3 * m.contentGain.den

\* C18: the recommendations are those of four independent rules in a fixed
\* order: the list holds the message of every rule whose condition holds
\* on the metrics, once each, in the order of the rules, and is empty when
\* no condition holds.
C18_Recommendations ==
    op = "generateRecommendations" =>
        LET recs == result.recommendations
            m    == result.metrics
        IN  /\ \A k \in 1..4 :
                  RuleHolds(k, m) <=>
                      \E p \in 1..Len(recs) : recs[p] = RuleMessages[k]
            /\ \A p \in 1..Len(recs) :
                  \E k \in 1..4 : recs[p] = RuleMessages[k]
            /\ \A p, q \in 1..Len(recs), k, l \in 1..4 :
                  (p < q /\ recs[p] = RuleMessages[k]
                         /\ recs[q] = RuleMessages[l]) => k < l
            /\ (\A k \in 1..4 : ~RuleHolds(k, m)) => recs = <<>>

\* recommendations were generated for metrics on which the first three
\* rules hold together
C18_Witness ==
    /\ op = "generateRecommendations"
    /\ Len(result.recommendations) = 3
    /\ result.metrics.missingWords > 1000

\* the alignment is of two different sequences with a common token
DifferentButOverlapping ==
    /\ op = "calculateSimilarity"
    /\ input1.same > 0
    /\ ~(input1.same = input1.len1 /\ input1.same = input1.len2)

\* C11 as stated: for token sequences that differ and share a token,
\* calculateSimilarity is strictly between 0 and 100.
C11_AsStated ==
    DifferentButOverlapping =>
        /\ RLt(Num(0), result.similarity)
        /\ RLt(result.similarity, Num(100))

\* C11 amended: for token sequences that differ and share a token,
\* calculateSimilarity is within 0..100; it is above 0 exactly when the two
\* sequences have at most 4000 tokens per common token, and below 100
\* exactly when 2 * |LCS| / (m + n) is below 0.9995, which every pair of
\* fewer than 2000 tokens in total satisfies.
C11_StrictlyBetween ==
    DifferentButOverlapping =>
        LET total == input1.len1 + input1.len2
            sim   == result.similarity
        IN  /\ RLe(Num(0), sim)
            /\ RLe(sim, Num(100))
            /\ RLt(Num(0), sim) <=> total <= 4000 * input1.same
            /\ RLt(sim, Num(100)) <=> 4000 * input1.same < 1999 * total
            /\ total < 2000 => RLt(sim, Num(100))

\* calculateSimilarity ran on a long sequence and the same sequence with one
\* more token, and rounded to 100
C11_Witness ==
    /\ op = "calculateSimilarity"
    /\ input1.len2 = input1.len1 + 1
    /\ input1.same = input1.len1
    /\ input1.len1 >= 1000
    /\ result.similarity = Num(100)

-----------------------------------------------------------------------------
(* Properties of the text functions (SpecText) *)

RECURSIVE IsSubsequence(_, _)
\* s can be read in t, in order
IsSubsequence(s, t) ==
    IF s = <<>> THEN TRUE
    ELSE IF t = <<>> THEN FALSE
    ELSE IF Head(s) = Head(t) THEN IsSubsequence(Tail(s), Tail(t))
    ELSE IsSubsequence(s, Tail(t))

RECURSIVE PickFrom(_, _, _)
PickFrom(A, I, k) ==
    IF k > Len(A) THEN <<>>
    ELSE (IF k \in I THEN <<A[k]>> ELSE <<>>) \o PickFrom(A, I, k + 1)

\* the tokens of A at the positions in I, in order
Pick(A, I) == PickFrom(A, I, 1)

\* the length of a longest common subsequence of A and B, by enumeration
LongestCommon(A, B) ==
    LET common  == {I \in SUBSET (1..Len(A)) : IsSubsequence(Pick(A, I), B)}
        lengths == {Cardinality(I) : I \in common}
    IN  CHOOSE n \in lengths : \A k \in lengths : k <= n

\* A and B have a token in common
ShareToken(A, B) == \E i \in 1..Len(A), j \in 1..Len(B) : A[i] = B[j]

\* sim is 2 * lcs / total * 100 rounded to one decimal, halves up
IsSimilarityOf(sim, lcs, total) ==
    LET tenths == (sim.num * 10) \div sim.den
    IN  /\ sim.num * 10 = tenths * sim.den
        /\ 2 * tenths * total <= 4000 * lcs + total
        /\ 4000 * lcs + total < 2 * (tenths + 1) * total

\* the similarity of the token sequences A and B as the contract gives it
SimilarityContract(sim, A, B) ==
    /\ A = B => sim = Num(100)
    /\ ~ShareToken(A, B) /\ A # B => sim = Num(0)
    /\ (A # B /\ ShareToken(A, B)) =>
          IsSimilarityOf(sim, LongestCommon(A, B), Len(A) + Len(B))

\* C9: calculateSimilarity is 100 when the texts tokenize to the same
\* sequence (both empty included), 0 when the sequences share no token (one
\* of them empty included), and otherwise 2 * |LCS| / (|seq1| + |seq2|) * 100
\* rounded to one decimal.
C9_Similarity ==
    op = "calculateSimilarity" =>
        SimilarityContract(result.similarity,
                           tokenize(input1, args.mode),
                           tokenize(input2, args.mode))

\* calculateSimilarity was called on different texts whose word sequences
\* differ in order, so that the common subsequence is shorter than both
C9_Witness ==
    /\ op = "calculateSimilarity"
    /\ args.mode = "word"
    /\ tokenize(input1, "word") = <<<<"a">>, <<"b">>>>
    /\ tokenize(input2, "word") = <<<<"b">>, <<"a">>>>
    /\ result.similarity = Num(50)

\* C10: calculateSimilarity gives the same value with the two texts
\* swapped, in each mode.
C10_Symmetry ==
    op = "calculateSimilarity" =>
        result.similarity = calculateSimilarity(input2, input1, args.mode)

\* calculateSimilarity was called on two texts of different length that
\* share part of their lines
C10_Witness ==
    /\ op = "calculateSimilarity"
    /\ args.mode = "line"
    /\ Len(tokenize(input1, "line")) < Len(tokenize(input2, "line"))
    /\ RLt(Num(0), result.similarity)
    /\ RLt(result.similarity, Num(100))

\* the texts of the operations whose type is among types, in order
TextsOf(ops, types) ==
    LET kept == SelectSeq(ops, LAMBDA o : o.type \in types)
    IN  [k \in 1..Len(kept) |-> kept[k].text]

\* C12: the operations of a diff are a consistent alignment: the texts of
\* its del and same operations, in order, are the tokens of text1, those of
\* its add and same operations are the tokens of text2; so added + same is
\* the token count of text2 and removed + same that of text1.
C12_ConsistentAlignment ==
    op = "generateDiffReport" =>
        LET A == tokenize(input1, args.mode)
            B == tokenize(input2, args.mode)
        IN  /\ \A k \in 1..Len(result.operations) :
                  result.operations[k].type \in {"same", "add", "del"}
            /\ TextsOf(result.operations, {"del", "same"}) = A
            /\ TextsOf(result.operations, {"add", "same"}) = B
            /\ result.added + result.same = Len(B)
            /\ result.removed + result.same = Len(A)

\* a diff of two different texts was made that keeps, adds and removes
\* tokens
C12_Witness ==
    /\ op = "generateDiffReport"
    /\ result.same > 0
    /\ result.added > 0
    /\ result.removed > 0
    /\ Len(result.operations) >= 4

\* C13: the same operations of a diff, in order, are a common subsequence
\* of the two token sequences, as long as dp[m][n] of the LCS recurrence
\* and as long as the longest common subsequence: no alignment has more
\* same operations.
C13_LongestCommonSubsequence ==
    op = "generateDiffReport" =>
        LET A    == tokenize(input1, args.mode)
            B    == tokenize(input2, args.mode)
            kept == TextsOf(result.operations, {"same"})
        IN  /\ IsSubsequence(kept, A)
            /\ IsSubsequence(kept, B)
            /\ Len(kept) = result.same
            /\ Len(kept) = LcsTable(A, B)[Len(A), Len(B)]
            /\ Len(kept) = LongestCommon(A, B)

\* a diff was made of two texts with common subsequences of different
\* lengths: "b b a" against "a b b" keeps the two b's, not the a
C13_Witness ==
    /\ op = "generateDiffReport"
    /\ args.mode = "word"
    /\ tokenize(input1, "word") = <<<<"b">>, <<"b">>, <<"a">>>>
    /\ tokenize(input2, "word") = <<<<"a">>, <<"b">>, <<"b">>>>
    /\ TextsOf(result.operations, {"same"}) = <<<<"b">>, <<"b">>>>

RECURSIVE FollowsBacktrace(_, _, _, _, _, _)
\* emitted is a walk from dp[i][j] to dp[0][0] one operation per step: a
\* same on equal tokens; on different tokens an add only where dp[i][j-1] is
\* strictly larger or i is 0, and a del otherwise, ties included
FollowsBacktrace(emitted, A, B, dp, i, j) ==
    IF emitted = <<>> THEN i = 0 /\ j = 0
    ELSE LET o     == Head(emitted)
             equal == i > 0 /\ j > 0 /\ A[i] = B[j]
         IN  CASE o.type = "same" ->
                    /\ equal
                    /\ o.text = A[i]
                    /\ FollowsBacktrace(Tail(emitted), A, B, dp, i - 1, j - 1)
               [] o.type = "add" ->
                    /\ ~equal
                    /\ j > 0
                    /\ i = 0 \/ dp[i, j - 1] > dp[i - 1, j]
                    /\ o.text = B[j]
                    /\ FollowsBacktrace(Tail(emitted), A, B, dp, i, j - 1)
               [] o.type = "del" ->
                    /\ ~equal
                    /\ i > 0
                    /\ j = 0 \/ dp[i - 1, j] >= dp[i, j - 1]
                    /\ o.text = A[i]
                    /\ FollowsBacktrace(Tail(emitted), A, B, dp, i - 1, j)
               [] OTHER -> FALSE

-----------------------------------------------------------------------------
(* Properties of comparisons in progress at once (SpecCompare) *)

\* the texts comparison c was called with
TextsOfCall(c) == IF c = 1 THEN input1 ELSE input2

-----------------------------------------------------------------------------
(* Properties of a session (SpecSession) *)

-----------------------------------------------------------------------------
(* Properties of the text functions under any mode string (SpecMode) *)

-----------------------------------------------------------------------------
(* Properties of word tokenization with URLs (SpecUrl) *)

RECURSIVE UrlSpans(_, _)
\* the first and last position of every URL-like substring of s from
\* position i on
UrlSpans(s, i) ==
    IF i > Len(s) THEN <<>>
    ELSE IF s[i] = Scheme
         THEN LET n == RunLength(SubSeq(s, i, Len(s)), Whitespace)
              IN  <<[first |-> i, last |-> i + n - 1]>>
                  \o UrlSpans(s, i + n)
         ELSE UrlSpans(s, i + 1)

\* the URL-like substrings of the tokenized text
Urls == UrlSpans(input1, 1)

UrlText(span) == SubSeq(input1, span.first, span.last)

\* token t has u in it, unchanged and in one piece
Contains(t, u) ==
    \E i \in 1..(Len(t) - Len(u) + 1) : SubSeq(t, i, i + Len(u) - 1) = u

\* the URL has whitespace or the start of the text before it, and after it
\* the end of the text or whitespace that no punctuation follows
Delimited(span) ==
    /\ span.first = 1 \/ input1[span.first - 1] \in Whitespace
    /\ LET rest == TrimStart(SubSeq(input1, span.last + 1, Len(input1)))
       IN  rest = <<>> \/ Head(rest) \notin Punctuation

WordTokens == op = "tokenize" /\ args.mode = "word"

NoPlaceholder(tokens) ==
    \A k \in 1..Len(tokens) : \A i \in 1..Len(tokens[k]) :
        \A p \in 1..Len(Placeholders) : tokens[k][i] # Placeholders[p]

-----------------------------------------------------------------------------
(* Properties of the browser entry point (Spec) *)

\* the options a call without options runs with
DefaultOptions == [ignoreNavFooter |-> TRUE, includeScore |-> TRUE]

\* a call of the browser entry point's analyzeVisibility in a browser,
\* with the default options
BrowserCall ==
    /\ op = "browserAnalyzeVisibility"
    /\ env = "browser"
    /\ args.options.ignoreNavFooter

\* C22 as stated: in a browser and with the default options, the browser
\* entry point's analyzeVisibility returns the metrics and the
\* visibilityScore that the main entry point's analyzeVisibility returns
C22_AsStated ==
    BrowserCall =>
        LET main == analyzeVisibility(input1, input2, DefaultOptions)
        IN  /\ ~result.threw
            /\ result.value.metrics = main.metrics
            /\ "visibilityScore" \in DOMAIN result.value
            /\ result.value.visibilityScore = main.visibilityScore

-----------------------------------------------------------------------------
(* Properties of the text extraction (Spec) *)

\* the calls that return stripTagsToText of the two documents
ExtractingCalls == {"analyzeContentDifference", "analyzeVisibility"}

RECURSIVE RetainedText(_, _)
\* the text, in document order, of the elements that are neither script,
\* style, noscript, template or media elements nor (when asked) navigation,
\* header or footer elements, nor inside one of them
RetainedText(nodes, ignoreNavFooter) ==
    IF nodes = <<>> THEN <<>>
    ELSE LET n == Head(nodes)
         IN  (IF \/ n.tag \in ScriptTags \cup MediaTags
                 \/ ignoreNavFooter /\ n.tag \in {"nav", "header", "footer"}
              THEN <<>>
              ELSE n.text \o RetainedText(n.children, ignoreNavFooter))
             \o RetainedText(Tail(nodes), ignoreNavFooter)

\* whitespace runs as one space, none at the ends
Squeezed(text) == Trim(CollapseWhitespace(text))

Extracted(html, ignoreNavFooter) ==
    IF env = "browser"
    THEN RetainedText(html.nodes, ignoreNavFooter)
    ELSE Squeezed(RetainedText(html.head \o html.nodes, ignoreNavFooter))

-----------------------------------------------------------------------------
(* Properties of the number formatting (SpecScore) *)

\* C24 as stated: formatNumberToK writes numbers below one thousand in
\* plain digits, numbers from one thousand to below one million with the
\* K suffix (1000 as "1K"), numbers from one million with the M suffix
C24_AsStated ==
    op = "formatNumberToK" =>
        LET s == result.formatted
        IN  /\ input1 < Thousand => s = NumberToString(input1)
            /\ input1 >= Thousand /\ input1 < Million => s[Len(s)] = "K"
            /\ input1 = Thousand => s = <<"1", "K">>
            /\ input1 >= Million => s[Len(s)] = "M"

-----------------------------------------------------------------------------
(* Properties of debounce (FairDebounce) and throttle (FairThrottle) *)

\* the invocations of func so far: each with the arguments of the call it
\* stands for, once wait has elapsed since that call, with no call between
\* that one and the invocation, and at most one for a call; and at most one
\* timer pending, the one of the last call
DebounceSafe ==
    /\ Cardinality(timers) <= 1
    /\ \A t \in timers : t.id = Len(calls)
    /\ \A i \in 1..Len(invoked) :
          /\ invoked[i].id \in 1..Len(calls)
          /\ invoked[i].args = calls[invoked[i].id].args
          /\ invoked[i].time >= calls[invoked[i].id].time + input1
          /\ \A k \in 1..Len(calls) :
                k > invoked[i].id => calls[k].time >= invoked[i].time
          /\ \A j \in 1..Len(invoked) :
                invoked[j].id = invoked[i].id => j = i

\* a call invokes nothing and leaves its own timer as the only one
DebounceStep ==
    calls' # calls =>
        /\ invoked' = invoked
        /\ timers' = {[id   |-> Len(calls'),
                       due  |-> now + input1,
                       args |-> calls'[Len(calls')].args]}

\* C25: a call of the debounced function never invokes func itself; at
\* most one timer is pending, each call cancelling the one before; func
\* runs only once wait has elapsed since the most recent call, with that
\* call's arguments; and a call that no other call follows is eventually
\* answered by one invocation of func
C25_Debounce ==
    /\ []DebounceSafe
    /\ [][DebounceStep]_vars
    /\ \A k \in 1..MaxCalls :
          (Len(calls) = k) ~>
              (Len(calls) > k \/ \E i \in 1..Len(invoked) : invoked[i].id = k)

\* a burst of two calls with different arguments, answered by one
\* invocation with the arguments of the second
C25_Witness ==
    /\ op = "later"
    /\ input1 > 0
    /\ Len(calls) = 2
    /\ calls[1].args # calls[2].args
    /\ Len(invoked) = 1
    /\ invoked[1].args = calls[2].args

\* the invocations of func so far: each made in the call it stands for, any
\* two of them at least limit apart; the window is open exactly while its
\* timer is pending
ThrottleSafe ==
    /\ Cardinality(timers) <= 1
    /\ inThrottle <=> timers # {}
    /\ \A i \in 1..Len(invoked) :
          /\ invoked[i].id \in 1..Len(calls)
          /\ invoked[i].args = calls[invoked[i].id].args
          /\ invoked[i].time = calls[invoked[i].id].time
          /\ \A j \in 1..Len(invoked) :
                j > i => invoked[j].time >= invoked[i].time + input1

\* a call invokes func, with its arguments, exactly when no window is open,
\* and opens one; nothing else invokes func; a window closes no sooner than
\* limit after it opened
ThrottleStep ==
    /\ calls' # calls =>
          IF inThrottle
          THEN invoked' = invoked /\ timers' = timers
          ELSE /\ invoked' = Append(invoked,
                                    [id   |-> Len(calls'),
                                     args |-> calls'[Len(calls')].args,
                                     time |-> now])
               /\ inThrottle'
    /\ calls' = calls => invoked' = invoked
    /\ inThrottle /\ ~inThrottle' =>
          now >= invoked[Len(invoked)].time + input1

-----------------------------------------------------------------------------
(* analyzeVisibility against the analyzer (Spec) *)

\* what analyzeContentDifference returns for the documents and the
\* ignoreNavFooter of the call
FullAnalysis ==
    analyzeContentDifference(input1, input2,
        [ignoreNavFooter |-> args.options.ignoreNavFooter])

\* C27 as stated: analyzeVisibility reports the contentGain, missingWords,
\* citationReadability, similarity and wordCount of analyzeContentDifference
\* on the same documents and flag, and the score and category of
\* generateVisibilityScore on that analysis
C27_AsStated ==
    op = "analyzeVisibility" =>
        /\ \A f \in {"contentGain", "missingWords", "citationReadability",
                     "similarity", "wordCount"} :
              result.metrics[f] = FullAnalysis.metrics[f]
        /\ args.options.includeScore =>
              /\ result.visibilityScore.score =
                    generateVisibilityScore(FullAnalysis).score
              /\ result.visibilityScore.category =
                    generateVisibilityScore(FullAnalysis).category

-----------------------------------------------------------------------------
(* The two environments of the text extraction (Spec) *)

\* C28 as stated: the text extracted from a document is the text either
\* branch of filterHtmlContent extracts from it, and so is the number of
\* its words
C28_AsStated ==
    op \in ExtractingCalls =>
        \A e \in Envs :
            LET text1 == FilteredText(e, input1, args.options.ignoreNavFooter)
                text2 == FilteredText(e, input2, args.options.ignoreNavFooter)
            IN  /\ result.initialText = text1
                /\ result.finalText = text2
                /\ result.metrics.wordCount.initial = countWords(text1)
                /\ result.metrics.wordCount.final = countWords(text2)

-----------------------------------------------------------------------------
(* The recommendations together (SpecScore) *)

-----------------------------------------------------------------------------
(* Monotonicity of the score (SpecScore) *)

\* the categories from the worst to the best
CategoryRank(category) ==
    CASE category = "poor" -> 0
      [] category = "fair" -> 1
      [] category = "good" -> 2
      [] category = "excellent" -> 3

\* metrics m2 are at least as good as metrics m1 on every factor
AtLeastAsGood(m2, m1) ==
    /\ RLe(m1.citationReadability, m2.citationReadability)
    /\ RLe(m1.similarity, m2.similarity)
    /\ RLe(m2.contentGain, m1.contentGain)

\* C30: generateVisibilityScore is monotone: metrics with a
\* citationReadability or a similarity that is no lower and a contentGain
\* that is no higher get a score and a category that are no lower
C30_Monotone ==
    (op = "generateVisibilityScore" /\ args.given = "metrics") =>
        \A m2 \in MetricsRecords :
            AtLeastAsGood(m2, input1) =>
                LET better == generateVisibilityScore([metrics |-> m2])
                IN  /\ RLe(result.score, better.score)
                    /\ CategoryRank(result.category)
                          <= CategoryRank(better.category)

\* metrics were scored that a higher citationReadability alone lifts to a
\* higher score and category, and that a higher contentGain alone takes to
\* a lower score and category
C30_Witness ==
    /\ op = "generateVisibilityScore"
    /\ args.given = "metrics"
    /\ \E r \in ReadabilityValues :
          LET better == generateVisibilityScore(
                            [metrics |-> [input1 EXCEPT
                                            !.citationReadability = r]])
          IN  /\ RLt(input1.citationReadability, r)
              /\ RLt(result.score, better.score)
              /\ CategoryRank(result.category) < CategoryRank(better.category)
    /\ \E g \in GainValues :
          LET worse == generateVisibilityScore(
                           [metrics |-> [input1 EXCEPT !.contentGain = g]])
          IN  /\ RLt(input1.contentGain, g)
              /\ RLt(worse.score, result.score)
              /\ CategoryRank(worse.category) < CategoryRank(result.category)

=============================================================================
